---- MODULE Spec2Model ----
(***************************************************************************)
(* A model of gooset/outbreaks-forecasting:                                *)
(*   src/src/data_processing/feature_engineering.py  (FeatureEngineer)     *)
(*   src/src/models/forecaster.py            (DengueProphetForecaster)     *)
(*                                                                         *)
(* A DataFrame is a record [index, data]: the row labels (pandas' index,   *)
(* kept through dropna) and, for every column name, the column's cells in  *)
(* dataset order.  Every cell is a tuple, so that a missing value (NaN,    *)
(* NaT, <NA>) is the empty tuple in every column: a number is the reduced  *)
(* fraction <<num, den>>, a city <<name>>, a date <<day of the year        *)
(* 2023>>.  A rolling std is held as its square, the sample variance (sqrt *)
(* is injective on what it is applied to here, so two stds are equal iff   *)
(* their variances are).                                                   *)
(***************************************************************************)
EXTENDS Integers, Sequences, FiniteSets, TLC

VARIABLES
    \* FeatureEngineer: the caller's dataset, self.df, the methods called so
    \* far and the exception that ended the last one ("none": it returned).
    raw, df, fe_calls, fe_err,
    \* DengueProphetForecaster.generate_forecast_dataframe: self.df, the
    \* forecast_periods argument, the place in the method, prophet_data, the
    \* cities the loop has yet to visit, all_forecasts, the frame given to
    \* predict for each city visited, the table returned, the exception raised.
    fc_df, periods, fc_pc, prophet_data, todo, all_forecasts, predict_frames,
    result, fc_err

fe_vars == <<raw, df, fe_calls, fe_err>>

fc_vars == <<fc_df, periods, fc_pc, prophet_data, todo, all_forecasts,
             predict_frames, result, fc_err>>

vars == <<fe_vars, fc_vars>>

(***************************************************************************)
(* Bounds of the model.                                                    *)
(***************************************************************************)
\* Largest number of rows of a dataset given to FeatureEngineer.
MaxRows == 15
\* Day of 2023 of the earliest date of a dataset (150 = May 30th, so that
\* the first rows cross a month, a season and an ISO week).
StartDay == 150
\* Largest number of rows of a dataset given to DengueProphetForecaster.
MaxFcRows == 4
\* Largest forecast_periods given to generate_forecast_dataframe.
MaxHorizon == 2

(***************************************************************************)
(* Cells.                                                                  *)
(***************************************************************************)
NaN == <<>>

IsNA(v) == v = NaN

Abs(a) == IF a < 0 THEN 0 - a ELSE a

RECURSIVE Gcd(_, _)
Gcd(a, b) == IF b = 0 THEN a ELSE Gcd(b, a % b)

\* The number n/d (d > 0) as a cell.
Frac(n, d) ==
    LET g == Gcd(Abs(n), d)
    IN  <<n \div g, d \div g>>

Num(i) == <<i, 1>>

\* The column names and the number of rows of a DataFrame.
Columns(d) == DOMAIN d.data

NRows(d) == Len(d.index)

\* self.df[c] = new[c] for every column c of new.
Assign(data, new) ==
    [c \in DOMAIN data \cup DOMAIN new |-> IF c \in DOMAIN new THEN new[c] ELSE data[c]]

(***************************************************************************)
(* FeatureEngineer.create_temporal_features                                *)
(***************************************************************************)
\* Last day of the year of each month of 2023.
MonthEnds == <<31, 59, 90, 120, 151, 181, 212, 243, 273, 304, 334, 365>>

\* .dt.month
MonthOf(doy) == CHOOSE m \in 1..12 :
                   /\ doy <= MonthEnds[m]
                   /\ (m > 1 => doy > MonthEnds[m - 1])

\* .dt.year
YearOf(doy) == 2023

\* .dt.dayofweek: Monday is 0; January 1st 2023 is a Sunday.
DayOfWeek(doy) == (doy + 5) % 7

\* .dt.isocalendar().week: January 1st 2023 lies in week 52 of 2022.
WeekOfYear(doy) == IF doy = 1 THEN 52 ELSE ((doy - 2) \div 7) + 1

\* pd.cut(month, bins=[0, 5, 10, 12], labels=['Dry', 'Rainy', 'Dry'], right=True)
Season(month) ==
    IF 0 < month /\ month <= 5 THEN <<"Dry">>
    ELSE IF 5 < month /\ month <= 10 THEN <<"Rainy">>
    ELSE IF 10 < month /\ month <= 12 THEN <<"Dry">>
    ELSE NaN

\* The calendar columns, and the period of those that are cyclically encoded.
CalendarCols == {"month", "year", "day_of_year", "week_of_year", "day_of_week", "season"}

CyclicCols == { <<"month", 12>>, <<"day_of_year", 365>>,
                <<"week_of_year", 52>>, <<"day_of_week", 7>> }

\* One calendar field of a date cell.
CalendarCell(c, date) ==
    IF IsNA(date) THEN NaN
    ELSE CASE c = "month" -> Num(MonthOf(date[1]))
           [] c = "year" -> Num(YearOf(date[1]))
           [] c = "day_of_year" -> Num(date[1])
           [] c = "week_of_year" -> Num(WeekOfYear(date[1]))
           [] c = "day_of_week" -> Num(DayOfWeek(date[1]))
           [] c = "season" -> Season(MonthOf(date[1]))

\* np.sin(2 * np.pi * value / max_val), np.cos(...): kept as terms.
CyclicCell(fn, cell, period) ==
    IF IsNA(cell) THEN NaN ELSE <<fn, cell[1], period>>

\* The columns create_temporal_features assigns, from the date column.
TemporalData(dates) ==
    LET n == Len(dates)
        calendar == [c \in CalendarCols |-> [k \in 1..n |-> CalendarCell(c, dates[k])]]
        sines == [c \in {p[1] \o "_sin" : p \in CyclicCols} |->
                    LET p == CHOOSE q \in CyclicCols : c = q[1] \o "_sin"
                    IN  [k \in 1..n |-> CyclicCell("sin", calendar[p[1]][k], p[2])]]
        cosines == [c \in {p[1] \o "_cos" : p \in CyclicCols} |->
                    LET p == CHOOSE q \in CyclicCols : c = q[1] \o "_cos"
                    IN  [k \in 1..n |-> CyclicCell("cos", calendar[p[1]][k], p[2])]]
    IN  Assign(Assign(calendar, sines), cosines)

\* The DataFrame after create_temporal_features.
TemporalFeatures(d) ==
    [index |-> d.index, data |-> Assign(d.data, TemporalData(d.data["date"]))]

(***************************************************************************)
(* FeatureEngineer.create_weather_features                                 *)
(***************************************************************************)
WeatherCols == <<"temperature_2m_max", "temperature_2m_min",
                 "precipitation_sum", "wind_speed_10m_max">>

Windows == {3, 7, 14}

LagDays == {3, 7, 14}

\* rolling(window, min_periods=1)
MinPeriods == 1

ExcludeColumns ==
    {"latitude", "longitude", "country", "country_id", "status",
     "occurrence_id", "vector", "source_type", "location_type", "city", "date"}

MeanName(col, window) == col \o "_" \o ToString(window) \o "d_mean"

StdName(col, window) == col \o "_" \o ToString(window) \o "d_std"

LagName(lag) == "breeding_conditions_lag_" \o ToString(lag)

RECURSIVE GroupUpTo(_, _, _)
\* groupby('city'): the positions up to k, ascending, of the rows of the
\* group of key `key`.
GroupUpTo(city, key, k) ==
    IF k = 0 THEN <<>>
    ELSE IF city[k] = key THEN Append(GroupUpTo(city, key, k - 1), k)
    ELSE GroupUpTo(city, key, k - 1)

\* For every row, the positions of its group up to the row itself, the row
\* last; none for a row whose key is missing (it belongs to no group).
Groups(city) ==
    [k \in 1..Len(city) |-> IF IsNA(city[k]) THEN <<>> ELSE GroupUpTo(city, city[k], k)]

\* x.rolling(window): the last `window` positions of a row's group.
Window(group, window) ==
    SubSeq(group, IF Len(group) > window THEN Len(group) - window + 1 ELSE 1, Len(group))

RECURSIVE Moments(_, _, _)
\* <<count, sum, sum of squares>> of the observations (the cells that are not
\* missing) of column `col` at the positions win[1..i].
Moments(col, win, i) ==
    IF i = 0 THEN <<0, 0, 0>>
    ELSE LET m == Moments(col, win, i - 1)
             v == col[win[i]]
         IN  IF IsNA(v) THEN m
             ELSE <<m[1] + 1, m[2] + v[1], m[3] + v[1] * v[1]>>

\* rolling(window, min_periods=1).mean() at a row of window `win`.
RollingMean(col, win) ==
    LET m == Moments(col, win, Len(win))
    IN  IF m[1] < MinPeriods THEN NaN ELSE Frac(m[2], m[1])

\* rolling(window, min_periods=1).std() at a row of window `win`: the sample
\* standard deviation (ddof = 1), missing on fewer than two observations.
RollingStd(col, win) ==
    LET m == Moments(col, win, Len(win))
    IN  IF m[1] < MinPeriods \/ m[1] < 2 THEN NaN
        ELSE Frac(m[1] * m[3] - m[2] * m[2], m[1] * (m[1] - 1))

\* The rolling columns of the weather columns `cols`, by name.
RollingKeys(cols) == cols \X Windows \X {"mean", "std"}

RollingName(key) ==
    IF key[3] = "mean" THEN MeanName(key[1], key[2]) ELSE StdName(key[1], key[2])

RollingNames(cols) == {RollingName(key) : key \in RollingKeys(cols)}

\* The loop over weather_cols and windows, run for the columns `cols`:
\* self.df.groupby('city')[col].transform(lambda x: x.rolling(...).mean()/.std())
RollingData(data, cols) ==
    LET groups == Groups(data["city"])
        n == Len(groups)
    IN  [c \in RollingNames(cols) |->
            LET key == CHOOSE q \in RollingKeys(cols) : RollingName(q) = c
            IN  [k \in 1..n |->
                    IF key[3] = "mean"
                    THEN RollingMean(data[key[1]], Window(groups[k], key[2]))
                    ELSE RollingStd(data[key[1]], Window(groups[k], key[2]))]]

\* ((tmax >= 25) & (tmax <= 35)).astype(int): a comparison with NaN is False.
OptimalMosquitoTemp(tmax) ==
    IF ~IsNA(tmax) /\ tmax[1] >= 25 * tmax[2] /\ tmax[1] <= 35 * tmax[2]
    THEN Num(1) ELSE Num(0)

\* ((precipitation_sum > 0) & (temperature_2m_min > 20)).astype(int)
BreedingConditions(precipitation, tmin) ==
    IF ~IsNA(precipitation) /\ precipitation[1] > 0
       /\ ~IsNA(tmin) /\ tmin[1] > 20 * tmin[2]
    THEN Num(1) ELSE Num(0)

IndicatorData(data) ==
    LET n == Len(data["city"])
    IN  [c \in {"optimal_mosquito_temp", "breeding_conditions"} |->
            [k \in 1..n |->
                IF c = "optimal_mosquito_temp"
                THEN OptimalMosquitoTemp(data["temperature_2m_max"][k])
                ELSE BreedingConditions(data["precipitation_sum"][k],
                                        data["temperature_2m_min"][k])]]

\* A shift that forgets the groupby: `lag` places earlier in the dataset.
ShiftAcrossCities(col, group, lag) ==
    IF group # <<>> /\ group[Len(group)] - lag >= 1
    THEN col[group[Len(group)] - lag] ELSE NaN

\* groupby('city')[...].shift(lag) at a row of group `group`: the cell `lag`
\* places earlier in the group, missing when there is none.
Shift(col, group, lag) ==
    IF Len(group) - lag >= 1 THEN col[group[Len(group) - lag]] ELSE NaN

\* .fillna(0)
FillNA0(cell) == IF IsNA(cell) THEN Num(0) ELSE cell

\* self.df.groupby('city')['breeding_conditions'].shift(lag).fillna(0)
LagData(data) ==
    LET groups == Groups(data["city"])
        n == Len(groups)
    IN  [c \in {LagName(l) : l \in LagDays} |->
            LET lag == CHOOSE l \in LagDays : LagName(l) = c
            IN  [k \in 1..n |->
                    FillNA0(Shift(data["breeding_conditions"], groups[k], lag))]]

RECURSIVE FFillCol(_, _)
\* fillna(method='ffill') on the first k cells of one column: a missing cell
\* takes the last cell before it that is not missing.
FFillCol(col, k) ==
    IF k = 0 THEN <<>>
    ELSE LET done == FFillCol(col, k - 1)
         IN  Append(done, IF IsNA(col[k]) /\ k > 1 THEN done[k - 1] ELSE col[k])

RECURSIVE BFillCol(_, _)
\* fillna(method='bfill') on the cells from k on of one column: a missing cell
\* takes the first cell after it that is not missing.
BFillCol(col, k) ==
    IF k > Len(col) THEN <<>>
    ELSE LET done == BFillCol(col, k + 1)
         IN  <<IF IsNA(col[k]) /\ k < Len(col) THEN done[1] ELSE col[k]>> \o done

\* The forward fill and then the backward fill of every column that is not
\* in exclude_columns, over the whole dataset order.
Repair(data) ==
    [c \in DOMAIN data |->
        IF c \in ExcludeColumns THEN data[c]
        ELSE BFillCol(FFillCol(data[c], Len(data[c])), 1)]

RECURSIVE KeptUpTo(_, _)
\* The positions up to k, ascending, of the rows dropna(subset=exclude_columns)
\* keeps: those with no missing cell in the columns of exclude_columns.
KeptUpTo(data, k) ==
    IF k = 0 THEN <<>>
    ELSE IF \A c \in ExcludeColumns : ~IsNA(data[c][k])
    THEN Append(KeptUpTo(data, k - 1), k)
    ELSE KeptUpTo(data, k - 1)

\* self.df.dropna(subset=exclude_columns, inplace=True)
DropNA(d) ==
    LET keep == KeptUpTo(d.data, NRows(d))
    IN  [index |-> [i \in 1..Len(keep) |-> d.index[keep[i]]],
         data |-> [c \in DOMAIN d.data |-> [i \in 1..Len(keep) |-> d.data[c][keep[i]]]]]

\* The weather columns before the first one the dataset lacks.
PresentPrefix(d) ==
    {WeatherCols[i] : i \in {i \in 1..Len(WeatherCols) :
                                \A j \in 1..i : WeatherCols[j] \in Columns(d)}}

\* The outcome of create_weather_features on DataFrame d: the DataFrame it
\* leaves in self.df and the exception it raised, if any.  A column the
\* dataset lacks makes groupby('city')[col] raise KeyError, with the rolling
\* columns of the earlier weather columns already assigned.
WeatherFeatures(d) ==
    LET done == PresentPrefix(d)
        rolled == Assign(d.data, RollingData(d.data, done))
        indicated == Assign(rolled, IndicatorData(rolled))
        lagged == Assign(indicated, LagData(indicated))
        repaired == Repair(lagged)
    IN  IF "city" \notin Columns(d) THEN [df |-> d, err |-> "KeyError"]
        ELSE IF \E i \in 1..Len(WeatherCols) : WeatherCols[i] \notin Columns(d)
        THEN [df |-> [index |-> d.index, data |-> rolled], err |-> "KeyError"]
        ELSE IF ~(ExcludeColumns \subseteq Columns(d))
        THEN [df |-> [index |-> d.index, data |-> repaired], err |-> "KeyError"]
        ELSE [df |-> DropNA([index |-> d.index, data |-> repaired]), err |-> "none"]

(***************************************************************************)
(* The datasets given to FeatureEngineer.                                  *)
(***************************************************************************)
Cities == {"A", "B"}

\* Weather observations of one row: max and min temperature, precipitation
\* and wind, each a whole number or missing.
Profiles ==
    { [temperature_2m_max |-> Num(30), temperature_2m_min |-> Num(22),
       precipitation_sum |-> Num(5), wind_speed_10m_max |-> Num(10)],
      [temperature_2m_max |-> Num(24), temperature_2m_min |-> Num(18),
       precipitation_sum |-> Num(0), wind_speed_10m_max |-> Num(12)],
      [temperature_2m_max |-> NaN, temperature_2m_min |-> Num(22),
       precipitation_sum |-> NaN, wind_speed_10m_max |-> Num(10)] }

\* What a row holds besides its date: its city, whether its latitude and its
\* date are recorded, its weather.
RowKinds ==
    [city : {<<c>> : c \in Cities}, latitude : {<<0, 1>>}, dated : {TRUE},
     weather : Profiles]
    \cup [city : {<<"A">>}, latitude : {NaN}, dated : {TRUE}, weather : Profiles]
    \cup [city : {NaN}, latitude : {<<0, 1>>}, dated : {TRUE},
          weather : {CHOOSE p \in Profiles : p["precipitation_sum"] = Num(5)}]
    \cup [city : {<<"B">>}, latitude : {<<0, 1>>}, dated : {FALSE},
          weather : {CHOOSE p \in Profiles : p["precipitation_sum"] = Num(5)}]

\* A dataset repeats a pattern of one or two row kinds.
Patterns == UNION { [1..p -> RowKinds] : p \in {1, 2} }

\* The row kinds, and the patterns, with no missing value at all.
CompleteKinds ==
    {kind \in RowKinds :
        /\ ~IsNA(kind.city) /\ ~IsNA(kind.latitude) /\ kind.dated
        /\ \A c \in DOMAIN kind.weather : ~IsNA(kind.weather[c])}

CompletePatterns ==
    {pat \in Patterns : \A i \in DOMAIN pat : pat[i] \in CompleteKinds}

\* The dates of a dataset, by position: ascending days, descending days, or
\* ascending with every day twice.
DateModes == {"asc", "desc", "twice"}

DateAt(mode, n, k) ==
    CASE mode = "asc" -> StartDay + k - 1
      [] mode = "desc" -> StartDay + n - k
      [] mode = "twice" -> StartDay + ((k - 1) \div 2)

\* The column sets of the datasets: every column, or all but one weather column.
Schemas ==
    LET all == ExcludeColumns \cup {WeatherCols[i] : i \in 1..Len(WeatherCols)}
                 \cup {"arbovirus_bool"}
    IN  {all, all \ {"temperature_2m_max"}, all \ {"precipitation_sum"}}

InputCell(kind, doy, c) ==
    CASE c = "city" -> kind.city
      [] c = "date" -> IF kind.dated THEN <<doy>> ELSE NaN
      [] c = "latitude" -> kind.latitude
      [] c = "longitude" -> <<0, 1>>
      [] c = "arbovirus_bool" -> Num(1)
      [] c \in DOMAIN kind.weather -> kind.weather[c]
      [] OTHER -> <<"x">>

MakeInput(n, pat, mode, columns) ==
    [index |-> [k \in 1..n |-> k],
     data |-> [c \in columns |->
                 [k \in 1..n |->
                     InputCell(pat[((k - 1) % Len(pat)) + 1], DateAt(mode, n, k), c)]]]

(***************************************************************************)
(* DengueProphetForecaster.prepare_data                                    *)
(***************************************************************************)
\* The order of the city names (sorting is by name).
CityOrder == <<"A", "B">>

CityRank(name) == CHOOSE i \in 1..Len(CityOrder) : CityOrder[i] = name

\* The default target of prepare_data.
Target == "arbovirus_bool"

\* The group key <<date, city>> of row k.
PairAt(data, k) == <<data["date"][k], data["city"][k]>>

\* The order of group keys: by date, then by city.
KeyLeq(a, b) ==
    \/ a[1][1] < b[1][1]
    \/ a[1][1] = b[1][1] /\ CityRank(a[2][1]) <= CityRank(b[2][1])

RECURSIVE SortKeys(_)
SortKeys(K) ==
    IF K = {} THEN <<>>
    ELSE LET lo == CHOOSE a \in K : \A b \in K : KeyLeq(a, b)
         IN  <<lo>> \o SortKeys(K \ {lo})

RECURSIVE KeysUpTo(_, _)
\* The keys of the rows up to k, in the order of their first appearance.
KeysUpTo(data, k) ==
    IF k = 0 THEN <<>>
    ELSE LET done == KeysUpTo(data, k - 1)
             key == PairAt(data, k)
         IN  IF IsNA(key[1]) \/ IsNA(key[2]) \/ \E i \in 1..Len(done) : done[i] = key
             THEN done ELSE Append(done, key)

\* A groupby that does not sort its keys (sort=False).
GroupKeysAppearance(data) == KeysUpTo(data, Len(data["city"]))

\* groupby(['date', 'city']): the keys of the groups, sorted; a row with a
\* missing date or city belongs to no group.
GroupKeys(data) ==
    SortKeys({PairAt(data, k) : k \in {j \in 1..Len(data["city"]) :
                  ~IsNA(data["date"][j]) /\ ~IsNA(data["city"][j])}})

RECURSIVE Members(_, _, _)
\* The positions up to k, ascending, of the rows of the group of key `key`.
Members(data, key, k) ==
    IF k = 0 THEN <<>>
    ELSE IF PairAt(data, k) = key THEN Append(Members(data, key, k - 1), k)
    ELSE Members(data, key, k - 1)

RECURSIVE AggSum(_, _, _)
\* 'sum' over the cells col[rows[1..i]]: missing cells are skipped.
AggSum(col, rows, i) ==
    IF i = 0 THEN 0
    ELSE AggSum(col, rows, i - 1) + (IF IsNA(col[rows[i]]) THEN 0 ELSE col[rows[i]][1])

RECURSIVE AggFirst(_, _, _)
\* 'first' over the cells col[rows[i..]]: the first cell that is not missing.
AggFirst(col, rows, i) ==
    IF i > Len(rows) THEN NaN
    ELSE IF ~IsNA(col[rows[i]]) THEN col[rows[i]]
    ELSE AggFirst(col, rows, i + 1)

RECURSIVE AggLast(_, _, _)
\* 'last' over the cells col[rows[1..i]]: the last cell that is not missing.
AggLast(col, rows, i) ==
    IF i = 0 THEN NaN
    ELSE IF ~IsNA(col[rows[i]]) THEN col[rows[i]]
    ELSE AggLast(col, rows, i - 1)

\* An aggregation by 'last' in the place of 'first'.
Last(col, rows) == AggLast(col, rows, Len(rows))

\* 'first' over the rows of one group.
First(col, rows) == AggFirst(col, rows, 1)

\* self.df.groupby(['date', 'city']).agg({target: 'sum', others: 'first'})
\*        .reset_index()
Aggregate(d, target) ==
    LET keys == GroupKeys(d.data)
        n == Len(keys)
        members == [i \in 1..n |-> Members(d.data, keys[i], NRows(d))]
    IN  [index |-> [i \in 1..n |-> i],
         data |-> [c \in Columns(d) |->
                     [i \in 1..n |->
                         CASE c = "date" -> keys[i][1]
                           [] c = "city" -> keys[i][2]
                           [] c = target ->
                                Num(AggSum(d.data[c], members[i], Len(members[i])))
                           [] OTHER -> First(d.data[c], members[i])]]]

\* df.rename(columns=names)
Rename(data, names) ==
    LET new(c) == IF c \in DOMAIN names THEN names[c] ELSE c
    IN  [x \in {new(c) : c \in DOMAIN data} |->
            data[CHOOSE c \in DOMAIN data : new(c) = x]]

RECURSIVE RowsOfCity(_, _, _)
\* The positions up to k, ascending, of the rows of city `name`.
RowsOfCity(city, name, k) ==
    IF k = 0 THEN <<>>
    ELSE IF city[k] = <<name>> THEN Append(RowsOfCity(city, name, k - 1), k)
    ELSE RowsOfCity(city, name, k - 1)

\* The rows of d at the positions `rows`, in that order.
Take(d, rows) ==
    [index |-> [i \in 1..Len(rows) |-> d.index[rows[i]]],
     data |-> [c \in Columns(d) |-> [i \in 1..Len(rows) |-> d.data[c][rows[i]]]]]

\* The cities of a DataFrame, in the order groupby('city') visits them.
CitiesIn(d) ==
    SelectSeq(CityOrder, LAMBDA name : \E k \in 1..NRows(d) : d.data["city"][k] = <<name>>)

\* prepare_data: for every city of the aggregated data, its rows with date
\* renamed to ds and the target to y.
PrepareData(d, target) ==
    LET aggregated == Aggregate(d, target)
        names == ("date" :> "ds") @@ (target :> "y")
    IN  [name \in {CitiesIn(aggregated)[i] : i \in 1..Len(CitiesIn(aggregated))} |->
            LET city_df == Take(aggregated,
                                RowsOfCity(aggregated.data["city"], name, NRows(aggregated)))
            IN  [index |-> city_df.index, data |-> Rename(city_df.data, names)]]

(***************************************************************************)
(* DengueProphetForecaster.train_prophet_model                             *)
(***************************************************************************)
\* The default regressors.
Regressors == <<"temperature_2m_max", "precipitation_sum", "wind_speed_10m_max">>

\* The regressors given to model.add_regressor: those that are columns.
Registered(prophet_df) ==
    {Regressors[i] : i \in {j \in 1..Len(Regressors) : Regressors[j] \in Columns(prophet_df)}}

\* model.fit(prophet_df) raises ValueError: Prophet refuses a history of fewer
\* than two rows with a y, and a missing value in a registered regressor.
FitRaises(prophet_df) ==
    \/ Cardinality({k \in 1..NRows(prophet_df) : ~IsNA(prophet_df.data["y"][k])}) < 2
    \/ \E r \in Registered(prophet_df) :
          \E k \in 1..NRows(prophet_df) : IsNA(prophet_df.data[r][k])

RECURSIVE SortDays(_)
SortDays(S) ==
    IF S = {} THEN <<>>
    ELSE LET lo == CHOOSE a \in S : \A b \in S : a <= b
         IN  <<lo>> \o SortDays(S \ {lo})

\* model.make_future_dataframe(periods=forecast_periods): the dates of the
\* history, sorted, then the n days after the last of them.
MakeFutureDataframe(prophet_df, n) ==
    LET ds == prophet_df.data["ds"]
        history == SortDays({ds[k][1] : k \in 1..Len(ds)})
        last == history[Len(history)]
    IN  [k \in 1..Len(history) + n |->
            IF k <= Len(history) THEN <<history[k]>> ELSE <<last + (k - Len(history))>>]

\* prophet_df[regressor].iloc[-1]
LastValue(prophet_df, regressor) ==
    prophet_df.data[regressor][NRows(prophet_df)]

\* A frame that keeps the regressor values of the historical dates and
\* carries the last one forward over the future dates only.
FutureFrameWithHistory(prophet_df, n) ==
    LET ds == MakeFutureDataframe(prophet_df, n)
        past(k) == {i \in 1..NRows(prophet_df) : prophet_df.data["ds"][i] = ds[k]}
    IN  [index |-> [k \in 1..Len(ds) |-> k],
         data |-> [c \in {"ds"} \cup Registered(prophet_df) |->
                     IF c = "ds" THEN ds
                     ELSE [k \in 1..Len(ds) |->
                             IF past(k) # {}
                             THEN prophet_df.data[c][CHOOSE i \in past(k) : TRUE]
                             ELSE LastValue(prophet_df, c)]]]

\* The frame given to predict: make_future_dataframe's dates and, for every
\* registered regressor, future[regressor] = prophet_df[regressor].iloc[-1].
FutureFrame(prophet_df, n) ==
    LET ds == MakeFutureDataframe(prophet_df, n)
    IN  [index |-> [k \in 1..Len(ds) |-> k],
         data |-> [c \in {"ds"} \cup Registered(prophet_df) |->
                     IF c = "ds" THEN ds
                     ELSE [k \in 1..Len(ds) |-> LastValue(prophet_df, c)]]]

\* model.fit(prophet_df): the fitted model, known by the city of its history.
Fit(prophet_df) == [city |-> prophet_df.data["city"][1][1]]

\* model.predict(future): the forecasting engine's output, one row per row
\* of the frame; its numbers are kept as terms <<column, day, city of the
\* model's history>>.
Predict(model, future) ==
    [index |-> future.index,
     data |-> [c \in {"ds", "trend", "yhat", "yhat_lower", "yhat_upper"} |->
                 IF c = "ds" THEN future.data["ds"]
                 ELSE [k \in 1..NRows(future) |->
                         <<c, future.data["ds"][k][1], model.city>>]]]

(***************************************************************************)
(* DengueProphetForecaster.generate_forecast_dataframe                     *)
(***************************************************************************)
\* city_forecast[['ds', 'yhat', 'yhat_lower', 'yhat_upper']]
SelectColumns(d, columns) ==
    [index |-> d.index, data |-> [c \in columns |-> d.data[c]]]

\* A rename that is not done in place: its result is dropped.
TaggedNotRenamed(d, name) ==
    [index |-> d.index,
     data |-> Assign(d.data, "city" :> [k \in 1..NRows(d) |-> <<name>>])]

\* forecast_df['city'] = city, then the rename of ds and yhat.
Tagged(d, name) ==
    [index |-> d.index,
     data |-> Rename(Assign(d.data, "city" :> [k \in 1..NRows(d) |-> <<name>>]),
                     ("ds" :> "date") @@ ("yhat" :> "forecasted_arbovirus_cases"))]

\* The forecast of one city, as appended to all_forecasts.
CityForecast(name, forecast) ==
    Tagged(SelectColumns(forecast, {"ds", "yhat", "yhat_lower", "yhat_upper"}), name)

RECURSIVE Concat(_, _)
\* pd.concat(frames[1..i], ignore_index=True), the frames having the same columns.
Concat(frames, i) ==
    IF i = 1 THEN [index |-> [k \in 1..NRows(frames[1]) |-> k], data |-> frames[1].data]
    ELSE LET head == Concat(frames, i - 1)
             n == NRows(head) + NRows(frames[i])
         IN  [index |-> [k \in 1..n |-> k],
              data |-> [c \in Columns(head) |-> head.data[c] \o frames[i].data[c]]]

(***************************************************************************)
(* The datasets given to DengueProphetForecaster.                          *)
(***************************************************************************)
\* The target and the regressors of one row.
FcValues ==
    { [arbovirus_bool |-> Num(1), temperature_2m_max |-> Num(30),
       precipitation_sum |-> Num(5)],
      [arbovirus_bool |-> Num(0), temperature_2m_max |-> Num(24),
       precipitation_sum |-> NaN] }

\* The dates of the rows, in days after StartDay.
FcDays == {0, 1}

FcRows ==
    [city : {<<c>> : c \in Cities}, date : {<<StartDay + o>> : o \in FcDays},
     values : FcValues]

FcColumns == {"date", "city", "arbovirus_bool", "temperature_2m_max", "precipitation_sum"}

MakeFcInput(rows) ==
    [index |-> [k \in 1..Len(rows) |-> k],
     data |-> [c \in FcColumns |->
                 [k \in 1..Len(rows) |->
                     CASE c = "city" -> rows[k].city
                       [] c = "date" -> rows[k].date
                       [] OTHER -> rows[k].values[c]]]]

\* No DataFrame (None).
NoFrame == [index |-> <<>>, data |-> <<>>]

(***************************************************************************)
(* The state machine of a FeatureEngineer: the constructor, then             *)
(* create_temporal_features and create_weather_features, each at most once. *)
(***************************************************************************)
FcIdle ==
    /\ fc_df = NoFrame
    /\ periods = 0
    /\ fc_pc = "idle"
    /\ prophet_data = <<>>
    /\ todo = <<>>
    /\ all_forecasts = <<>>
    /\ predict_frames = <<>>
    /\ result = NoFrame
    /\ fc_err = "none"

Init ==
    /\ \/ \E n \in 1..MaxRows, pat \in CompletePatterns, mode \in DateModes,
             columns \in Schemas :
             raw = MakeInput(n, pat, mode, columns)
       \/ \E n \in 1..MaxRows, pat \in Patterns \ CompletePatterns, mode \in DateModes,
             columns \in Schemas :
             raw = MakeInput(n, pat, mode, columns)
    /\ df = raw
    /\ fe_calls = <<>>
    /\ fe_err = "none"
    /\ FcIdle

create_temporal_features ==
    /\ fe_err = "none"
    /\ fe_calls = <<>>
    /\ df' = TemporalFeatures(df)
    /\ fe_calls' = Append(fe_calls, "create_temporal_features")
    /\ UNCHANGED <<raw, fe_err, fc_vars>>

create_weather_features ==
    /\ fe_err = "none"
    /\ \A i \in 1..Len(fe_calls) : fe_calls[i] # "create_weather_features"
    /\ LET out == WeatherFeatures(df)
       IN  /\ df' = out.df
           /\ fe_err' = out.err
    /\ fe_calls' = Append(fe_calls, "create_weather_features")
    /\ UNCHANGED <<raw, fc_vars>>

Next == create_temporal_features \/ create_weather_features

Spec == Init /\ [][Next]_vars

(***************************************************************************)
(* The state machine of one call of generate_forecast_dataframe on a       *)
(* DengueProphetForecaster: prepare_data, then one turn of the loop per    *)
(* city, then pd.concat.                                                   *)
(***************************************************************************)
FeIdle ==
    /\ raw = NoFrame
    /\ df = NoFrame
    /\ fe_calls = <<>>
    /\ fe_err = "none"

InitForecast ==
    /\ \E n \in 0..MaxFcRows : \E rows \in [1..n -> FcRows] : fc_df = MakeFcInput(rows)
    /\ periods \in 1..MaxHorizon
    /\ fc_pc = "prepare"
    /\ prophet_data = <<>>
    /\ todo = <<>>
    /\ all_forecasts = <<>>
    /\ predict_frames = <<>>
    /\ result = NoFrame
    /\ fc_err = "none"
    /\ FeIdle

\* prophet_data = self.prepare_data()
prepare_data ==
    /\ fc_pc = "prepare"
    /\ prophet_data' = PrepareData(fc_df, Target)
    /\ todo' = SelectSeq(CityOrder, LAMBDA name : name \in DOMAIN PrepareData(fc_df, Target))
    /\ fc_pc' = "loop"
    /\ UNCHANGED <<fc_df, periods, all_forecasts, predict_frames, result, fc_err, fe_vars>>

\* One turn of the loop: train_prophet_model returns and the city's forecast
\* is appended to all_forecasts.
train_prophet_model ==
    /\ fc_pc = "loop"
    /\ todo # <<>>
    /\ ~FitRaises(prophet_data[Head(todo)])
    /\ LET city == Head(todo)
           future == FutureFrame(prophet_data[city], periods)
       IN  /\ predict_frames' = (city :> future) @@ predict_frames
           /\ all_forecasts' = Append(all_forecasts,
                  CityForecast(city, Predict(Fit(prophet_data[city]), future)))
    /\ todo' = Tail(todo)
    /\ UNCHANGED <<fc_df, periods, fc_pc, prophet_data, result, fc_err, fe_vars>>

\* A loop that catches the exception and goes on to the next city.
fit_skipped ==
    /\ fc_pc = "loop"
    /\ todo # <<>>
    /\ FitRaises(prophet_data[Head(todo)])
    /\ todo' = Tail(todo)
    /\ UNCHANGED <<fc_df, periods, fc_pc, prophet_data, all_forecasts, predict_frames,
                   result, fc_err, fe_vars>>

\* One turn of the loop: model.fit raises, and nothing catches it.
fit_raises ==
    /\ fc_pc = "loop"
    /\ todo # <<>>
    /\ FitRaises(prophet_data[Head(todo)])
    /\ fc_pc' = "raised"
    /\ fc_err' = "ValueError"
    /\ UNCHANGED <<fc_df, periods, prophet_data, todo, all_forecasts, predict_frames,
                   result, fe_vars>>

\* forecast_df = pd.concat(all_forecasts, ignore_index=True); return forecast_df
concat_forecasts ==
    /\ fc_pc = "loop"
    /\ todo = <<>>
    /\ all_forecasts # <<>>
    /\ result' = Concat(all_forecasts, Len(all_forecasts))
    /\ fc_pc' = "returned"
    /\ UNCHANGED <<fc_df, periods, prophet_data, todo, all_forecasts, predict_frames,
                   fc_err, fe_vars>>

\* pd.concat of no frame at all raises ValueError.
concat_raises ==
    /\ fc_pc = "loop"
    /\ todo = <<>>
    /\ all_forecasts = <<>>
    /\ fc_pc' = "raised"
    /\ fc_err' = "ValueError"
    /\ UNCHANGED <<fc_df, periods, prophet_data, todo, all_forecasts, predict_frames,
                   result, fe_vars>>

NextForecast ==
    \/ prepare_data
    \/ train_prophet_model
    \/ fit_raises
    \/ concat_forecasts
    \/ concat_raises

SpecForecast == InitForecast /\ [][NextForecast]_vars

(***************************************************************************)
(* Properties of FeatureEngineer (checked under Spec).                     *)
(***************************************************************************)
Called(method) == \E i \in 1..Len(fe_calls) : fe_calls[i] = method

\* create_weather_features has returned.
WeatherDone == Called("create_weather_features") /\ fe_err = "none"

AllWeatherCols == {WeatherCols[i] : i \in 1..Len(WeatherCols)}

\* The dataset create_weather_features ran on in this run, had the caller's
\* dataset been d.
Before(d) == IF Called("create_temporal_features") THEN TemporalFeatures(d) ELSE d

\* The positions of the rows of d that are not rows of city `name`.
OtherRows(d, name) == {k \in 1..NRows(d) : d.data["city"][k] # <<name>>}

\* d with the rows at positions j and k exchanged.
Exchanged(d, j, k) ==
    [index |-> d.index,
     data |-> [c \in Columns(d) |->
                 [d.data[c] EXCEPT ![j] = d.data[c][k], ![k] = d.data[c][j]]]]

\* d with the weather of row k replaced by profile p.
Reobserved(d, k, p) ==
    [index |-> d.index,
     data |-> [c \in Columns(d) |->
                 IF c \in DOMAIN p THEN [d.data[c] EXCEPT ![k] = p[c]] ELSE d.data[c]]]

\* Datasets that agree with d on the rows of city `name` and differ in the
\* weather of one other row or in the order of two other rows.
Variants(d, name) ==
    {Reobserved(d, k, p) : k \in OtherRows(d, name), p \in Profiles}
    \cup {Exchanged(d, j, k) : j \in OtherRows(d, name), k \in OtherRows(d, name)}

\* The rolling columns of d on the rows of city `name`.
RollingOf(d, name) ==
    LET rows == RowsOfCity(d.data["city"], name, NRows(d))
    IN  [c \in RollingNames(AllWeatherCols) |-> [i \in 1..Len(rows) |-> d.data[c][rows[i]]]]

\* C1: after create_weather_features, the rolling mean and std of a city's
\* rows depend on that city's rows only: changing the weather or the order of
\* other cities' rows in the input leaves them as they are.
C1_RollingDependsOnOwnCityOnly ==
    WeatherDone =>
        \A name \in Cities : \A alt \in Variants(raw, name) :
            RollingOf(WeatherFeatures(Before(alt)).df, name) = RollingOf(df, name)

\* The rows of the caller's dataset that are rows of the city of row k.
RawCityRows(k) ==
    {j \in 1..NRows(raw) : raw.data["city"][j] = raw.data["city"][k]}

\* The place of row k among the rows of its city, counted from 0.
RawPlace(k) == Cardinality({j \in RawCityRows(k) : j < k})

\* breeding_conditions of row j of the caller's dataset.
RawBreeding(j) ==
    BreedingConditions(raw.data["precipitation_sum"][j], raw.data["temperature_2m_min"][j])

\* C2: after create_weather_features, breeding_conditions_lag_N of a row at
\* place i among its city's rows (in the order of the dataset the features
\* were computed on) is breeding_conditions of that city's row at place i - N,
\* and 0, not missing, when i - N < 0.
C2_LagIsOwnCityRowNPlacesBack ==
    WeatherDone =>
        \A i \in 1..NRows(df) : \A N \in LagDays :
            LET k == df.index[i]
                from == {j \in RawCityRows(k) : RawPlace(j) = RawPlace(k) - N}
            IN  df.data[LagName(N)][i] =
                    IF RawPlace(k) - N < 0 THEN Num(0)
                    ELSE RawBreeding(CHOOSE j \in from : TRUE)

\* A row takes a lag-7 value of 1 from its own city across rows of another
\* city (the row 7 dataset places back is another city's and holds 0), and
\* another row has no row 3 places back in its city and holds 0.
C2_Witness ==
    /\ WeatherDone
    /\ \E i \in 1..NRows(df) :
          LET k == df.index[i]
          IN  /\ df.data[LagName(7)][i] = Num(1)
              /\ k > 7
              /\ raw.data["city"][k - 7] # raw.data["city"][k]
              /\ RawBreeding(k - 7) = Num(0)
    /\ \E i \in 1..NRows(df) :
          /\ RawPlace(df.index[i]) < 3
          /\ df.index[i] > 3
          /\ df.data[LagName(3)][i] = Num(0)

\* C5: on a dataset that has city and date and lacks a weather column,
\* create_weather_features raises nothing and computes the rolling features
\* of the weather columns that are present.
C5_MissingWeatherColumnTolerated ==
    ( /\ Called("create_weather_features")
      /\ {"city", "date"} \subseteq Columns(raw)
      /\ ~(AllWeatherCols \subseteq Columns(raw)) )
    => /\ fe_err = "none"
       /\ RollingNames(AllWeatherCols \cap Columns(raw)) \subseteq Columns(df)

\* C7: after create_temporal_features and then create_weather_features on a
\* dataset with every context and weather column, no row has a missing value
\* in a column that is not a context column.
C7_NoMissingValueAfterRepair ==
    ( /\ fe_calls = <<"create_temporal_features", "create_weather_features">>
      /\ ExcludeColumns \cup AllWeatherCols \subseteq Columns(raw) )
    => /\ fe_err = "none"
       /\ \A c \in Columns(df) \ ExcludeColumns :
             \A i \in 1..NRows(df) : ~IsNA(df.data[c][i])

\* C9: whatever the order of the input rows, the window of a row holds rows
\* of its city dated no later than the row, and its lag-N value comes from a
\* row of its city with an earlier date.
C9_WindowsAndLagsChronological ==
    WeatherDone =>
        \A i \in 1..NRows(df) :
            LET k == df.index[i]
                group == Groups(raw.data["city"])[k]
                date == raw.data["date"]
            IN  /\ \A w \in Windows :
                      LET win == Window(group, w)
                      IN  \A x \in 1..Len(win) :
                              /\ raw.data["city"][win[x]] = raw.data["city"][k]
                              /\ ~IsNA(date[win[x]]) => date[win[x]][1] <= date[k][1]
                /\ \A N \in LagDays :
                      Len(group) - N >= 1 =>
                          LET src == group[Len(group) - N]
                          IN  ~IsNA(date[src]) => date[src][1] < date[k][1]

(***************************************************************************)
(* Properties of DengueProphetForecaster (checked under SpecForecast).     *)
(***************************************************************************)
RECURSIVE SetSum(_, _)
\* The sum over the positions S of the cells of col that are not missing.
SetSum(col, S) ==
    IF S = {} THEN 0
    ELSE LET k == CHOOSE j \in S : TRUE
         IN  (IF IsNA(col[k]) THEN 0 ELSE col[k][1]) + SetSum(col, S \ {k})

\* prepare_data has returned.
Prepared == fc_pc \in {"loop", "raised", "returned"}

\* The rows of the input of a <<date, city>> pair.
PairRows(key) == {k \in 1..NRows(fc_df) : PairAt(fc_df.data, k) = key}

InputPairs == {PairAt(fc_df.data, k) : k \in 1..NRows(fc_df)}

OtherColumns == Columns(fc_df) \ {"date", "city", Target}

\* The rows of a city's series dated as the pair.
SeriesRows(key) ==
    LET series == prophet_data[key[2][1]]
    IN  {i \in 1..NRows(series) : series.data["ds"][i] = key[1]}

\* The pair has one row in its city's series, holding the sum of the target.
OneRowWithSum(key) ==
    /\ key[2][1] \in DOMAIN prophet_data
    /\ Cardinality(SeriesRows(key)) = 1
    /\ \A i \in SeriesRows(key) :
          prophet_data[key[2][1]].data["y"][i] = Num(SetSum(fc_df.data[Target], PairRows(key)))

\* C3 as stated: prepare_data gives every (date, city) pair of the input one
\* row in the city's series, with y the sum of the target over the pair's rows
\* and every other column the value of the pair's first row in input order.
C3_OtherColumnsFromFirstRow ==
    Prepared =>
        \A key \in InputPairs :
            /\ OneRowWithSum(key)
            /\ \A i \in SeriesRows(key) : \A c \in OtherColumns :
                  LET first == CHOOSE k \in PairRows(key) : \A j \in PairRows(key) : k <= j
                  IN  prophet_data[key[2][1]].data[c][i] = fc_df.data[c][first]

\* C3 as amended: prepare_data gives every (date, city) pair of the input one
\* row in the city's series, with y the sum of the target over the pair's rows
\* and every other column the first value that is not missing among the
\* pair's rows in input order (missing when all are).
C3_OtherColumnsFirstNotMissing ==
    Prepared =>
        \A key \in InputPairs :
            /\ OneRowWithSum(key)
            /\ \A i \in SeriesRows(key) : \A c \in OtherColumns :
                  LET valid == {k \in PairRows(key) : ~IsNA(fc_df.data[c][k])}
                  IN  prophet_data[key[2][1]].data[c][i] =
                          IF valid = {} THEN NaN
                          ELSE fc_df.data[c][CHOOSE k \in valid : \A j \in valid : k <= j]

\* A pair of two rows or more whose first row lacks the precipitation a later
\* row has, the series holding the later row's value and a y of 1 or more.
C3_Witness ==
    /\ Prepared
    /\ \E key \in InputPairs :
          LET first == CHOOSE k \in PairRows(key) : \A j \in PairRows(key) : k <= j
          IN  /\ Cardinality(PairRows(key)) >= 2
              /\ IsNA(fc_df.data["precipitation_sum"][first])
              /\ \E i \in SeriesRows(key) :
                    /\ prophet_data[key[2][1]].data["precipitation_sum"][i] = Num(5)
                    /\ prophet_data[key[2][1]].data["y"][i][1] >= 1

\* The latest date of a series, and its row of that date.
LatestDay(series) ==
    CHOOSE day \in {series.data["ds"][i][1] : i \in 1..NRows(series)} :
        \A i \in 1..NRows(series) : series.data["ds"][i][1] <= day

\* C4: for every registered regressor and every date of the frame given to
\* predict that lies after the city's last historical date, the regressor
\* value is the city's value on its latest historical date.
C4_FutureRegressorsCarryLatestDate ==
    \A name \in DOMAIN predict_frames :
        LET series == prophet_data[name]
            frame == predict_frames[name]
        IN  \A r \in Registered(series) : \A k \in 1..NRows(frame) :
                frame.data["ds"][k][1] > LatestDay(series) =>
                    \E i \in 1..NRows(series) :
                        /\ series.data["ds"][i][1] = LatestDay(series)
                        /\ frame.data[r][k] = series.data[r][i]

\* A city whose input rows come latest date first, whose max temperature
\* differs between its dates, and whose frame has a future date.
C4_Witness ==
    \E name \in DOMAIN predict_frames :
        LET series == prophet_data[name]
            frame == predict_frames[name]
        IN  /\ \E j, k \in 1..NRows(fc_df) :
                  /\ j < k
                  /\ fc_df.data["city"][j] = <<name>>
                  /\ fc_df.data["city"][k] = <<name>>
                  /\ fc_df.data["date"][j][1] > fc_df.data["date"][k][1]
            /\ series.data["temperature_2m_max"][1]
                  # series.data["temperature_2m_max"][NRows(series)]
            /\ \E k \in 1..NRows(frame) : frame.data["ds"][k][1] > LatestDay(series)

\* The cities of prophet_data whose fit raises.
Failing == {name \in DOMAIN prophet_data : FitRaises(prophet_data[name])}

\* The cities of the rows of a forecast table.
TableCities(d) == {d.data["city"][k][1] : k \in 1..NRows(d)}

\* C6 as stated: when the fit fails for one city and not for another, the run
\* still returns a table, with the forecasts of the other cities and without
\* the failing one.
C6_FailureIsolatedToCity ==
    ( /\ fc_pc \in {"raised", "returned"}
      /\ Failing # {}
      /\ DOMAIN prophet_data \ Failing # {} )
    => /\ fc_pc = "returned"
       /\ TableCities(result) = DOMAIN prophet_data \ Failing

\* C6 as amended: when the fit fails for a city, the exception leaves
\* generate_forecast_dataframe: the run never returns a table, not even the
\* forecasts of the cities before the failing one.
C6_FailureAbortsRun ==
    Failing # {} =>
        /\ fc_pc # "returned"
        /\ result = NoFrame
        /\ fc_pc = "raised" => fc_err = "ValueError" /\ todo # <<>> /\ Head(todo) \in Failing

\* The run has ended on the failing fit of one city with the forecast of
\* another city already in all_forecasts.
C6_Witness ==
    /\ fc_pc = "raised"
    /\ Failing # {}
    /\ all_forecasts # <<>>

\* The name of the city of row k of the returned table is that of the model
\* that predicted the row.
TaggedWithOwnCity(k) ==
    /\ result.data["city"][k] = <<result.data["yhat_lower"][k][3]>>
    /\ result.data["city"][k] = <<result.data["yhat_upper"][k][3]>>

\* C8 as stated: every row of the returned table has the columns date, city,
\* forecasted_count, lower_bound and upper_bound, and the city of its series.
C8_PublicSchemaColumns ==
    fc_pc = "returned" =>
        /\ Columns(result) = {"date", "city", "forecasted_count", "lower_bound", "upper_bound"}
        /\ \A k \in 1..NRows(result) : TaggedWithOwnCity(k)

\* C8 as amended: every row of the returned table has the columns date, city,
\* forecasted_arbovirus_cases, yhat_lower and yhat_upper, and the city of its
\* series.
C8_ForecastColumns ==
    fc_pc = "returned" =>
        /\ Columns(result) =
              {"date", "city", "forecasted_arbovirus_cases", "yhat_lower", "yhat_upper"}
        /\ \A k \in 1..NRows(result) :
              /\ TaggedWithOwnCity(k)
              /\ result.data["city"][k] = <<result.data["forecasted_arbovirus_cases"][k][3]>>

\* A returned table with the rows of two cities.
C8_Witness ==
    /\ fc_pc = "returned"
    /\ Cardinality(TableCities(result)) = 2

\* C10: the frame given to predict holds, for every registered regressor, on
\* every date, historical or future, the value of the last row of the series
\* the model was fit on, and no other column than ds.
C10_RegressorsConstantOverFrame ==
    \A name \in DOMAIN predict_frames :
        LET series == prophet_data[name]
            frame == predict_frames[name]
        IN  /\ Columns(frame) = {"ds"} \cup Registered(series)
            /\ \A r \in Registered(series) : \A k \in 1..NRows(frame) :
                  frame.data[r][k] = series.data[r][NRows(series)]

\* A frame whose row of a historical date holds another max temperature than
\* the series holds on that date.
C10_Witness ==
    \E name \in DOMAIN predict_frames :
        LET series == prophet_data[name]
            frame == predict_frames[name]
        IN  \E k \in 1..NRows(frame), i \in 1..NRows(series) :
                /\ frame.data["ds"][k] = series.data["ds"][i]
                /\ frame.data["temperature_2m_max"][k] # series.data["temperature_2m_max"][i]

====
